---- MODULE Spec2Model ----
(***************************************************************************)
(* Model of tdf_pool: rule-driven scoring of result tables (score.py) and  *)
(* the budget-constrained team selection (best_team.py).                   *)
(*                                                                         *)
(* A DataFrame is a record [kind, columns, rows]; a row is a function from *)
(* its column names to cell values.  Cells of result tables are strings,   *)
(* as read from a results page ("1", "2", "DNF"); astype(int) parses them. *)
(* A dict keeps insertion order, so it is a sequence of [name, node].      *)
(***************************************************************************)
EXTENDS Integers, Sequences, FiniteSets, TLC

VARIABLES stages, score_template, call, podium,
          riders, nriders, budget, optimized_result,
          filesystem, requests, returned

vars == <<stages, score_template, call, podium,
          riders, nriders, budget, optimized_result,
          filesystem, requests, returned>>

(***************************************************************************)
(* Bounds of the model.                                                    *)
(***************************************************************************)
MaxRows == 3

MaxStages == 2

MaxRiders == 3

\* the longest list or tuple handed to ensure_list_or_default
MaxItems == 3

\* the most requests sent in a sequence of download_webpage calls
MaxRequests == 3

(***************************************************************************)
(* Generic helpers.                                                        *)
(***************************************************************************)
RECURSIVE SumSeq(_)
SumSeq(s) == IF s = <<>> THEN 0 ELSE s[1] + SumSeq(Tail(s))

RECURSIVE SumFn(_, _)
SumFn(f, S) ==
    IF S = {} THEN 0
    ELSE LET x == CHOOSE y \in S : TRUE IN f[x] + SumFn(f, S \ {x})

Min(a, b) == IF a <= b THEN a ELSE b

SeqsUpTo(S, n) == UNION {[1..k -> S] : k \in 0..n}

\* F applied to the value of v, which is evaluated once
With(v, F(_)) == CHOOSE r \in {F(x) : x \in {v}} : TRUE

(***************************************************************************)
(* Return values: a DataFrame of points, None, or a raised exception.      *)
(***************************************************************************)
None == [kind |-> "None", error |-> "", cols |-> {}, rows |-> <<>>]

Raise(e) == [kind |-> "Error", error |-> e, cols |-> {}, rows |-> <<>>]

Frame(cols, rows) == [kind |-> "DataFrame", error |-> "", cols |-> cols, rows |-> rows]

(***************************************************************************)
(* The competitors, in the lexicographic order of (Rider, Team) that       *)
(* groupby uses for its output.                                            *)
(***************************************************************************)
Competitors ==
    <<[Rider |-> "A", Team |-> "T1"], [Rider |-> "B", Team |-> "T1"],
      [Rider |-> "C", Team |-> "T2"], [Rider |-> "D", Team |-> "T2"],
      [Rider |-> "E", Team |-> "T3"]>>

KeyOf(r) == [Rider |-> r.Rider, Team |-> r.Team]

(***************************************************************************)
(* pandas primitives.                                                      *)
(***************************************************************************)
\* int(): the strings that astype(int) accepts, and their values
IntOfStr ==
    [s \in {"0", "1", "2", "3", "4", "5"} |->
        CASE s = "0" -> 0 [] s = "1" -> 1 [] s = "2" -> 2
          [] s = "3" -> 3 [] s = "4" -> 4 [] s = "5" -> 5]

CanCastInt(v) == v \in DOMAIN IntOfStr

\* sort_values: the place of the i-th row in the stable order of the integer
\* keys (among equal keys the earlier row comes first, in both directions)
place(keys, ascending, i) ==
    1 + Cardinality({j \in 1..Len(keys) :
                        \/ (IF ascending THEN keys[j] < keys[i] ELSE keys[j] > keys[i])
                        \/ (keys[j] = keys[i] /\ j < i)})

sort_values(rows, keys, ascending) ==
    [p \in 1..Len(rows) |->
        rows[CHOOSE i \in 1..Len(rows) : place(keys, ascending, i) = p]]

\* pd.concat of frames of points: the union of the columns, NaN (0 in a sum)
\* where a frame lacks a column
RECURSIVE concat_rows(_)
concat_rows(frames) ==
    IF frames = <<>> THEN <<>> ELSE frames[1].rows \o concat_rows(Tail(frames))

concat(frames) ==
    With(UNION {frames[k].cols : k \in 1..Len(frames)}, LAMBDA cols :
    With(concat_rows(frames), LAMBDA rows :
        [cols |-> cols,
         rows |-> [i \in 1..Len(rows) |->
                     [Rider |-> rows[i].Rider, Team |-> rows[i].Team,
                      v |-> [c \in cols |->
                               IF c \in DOMAIN rows[i].v THEN rows[i].v[c] ELSE 0]]]]))

\* an aggregation that keeps, per key, the value of the last row of the key
groupby_last(frame) ==
    With(SelectSeq(Competitors,
                   LAMBDA c : \E i \in 1..Len(frame.rows) : KeyOf(frame.rows[i]) = c),
         LAMBDA order :
        [cols |-> frame.cols,
         rows |-> [k \in 1..Len(order) |->
                     [Rider |-> order[k].Rider, Team |-> order[k].Team,
                      v |-> frame.rows[CHOOSE i \in 1..Len(frame.rows) :
                                /\ KeyOf(frame.rows[i]) = order[k]
                                /\ \A j \in (i + 1)..Len(frame.rows) :
                                      KeyOf(frame.rows[j]) # order[k]].v]]])

\* groupby(["Rider", "Team"]).agg("sum").reset_index(): one row per key, in
\* key order, each column summed
groupby_sum(frame) ==
    With(SelectSeq(Competitors,
                   LAMBDA c : \E i \in 1..Len(frame.rows) : KeyOf(frame.rows[i]) = c),
         LAMBDA order :
        [cols |-> frame.cols,
         rows |-> [k \in 1..Len(order) |->
                     [Rider |-> order[k].Rider, Team |-> order[k].Team,
                      v |-> [c \in frame.cols |->
                               SumSeq([i \in 1..Len(frame.rows) |->
                                         IF KeyOf(frame.rows[i]) = order[k]
                                         THEN frame.rows[i].v[c] ELSE 0])]]]])

\* sort_values(by, ascending=False) on a frame of points
sort_desc(frame, by) ==
    [cols |-> frame.cols,
     rows |-> sort_values(frame.rows,
                          [i \in 1..Len(frame.rows) |-> frame.rows[i].v[by]], FALSE)]

(***************************************************************************)
(* score.py: scoring_function                                              *)
(***************************************************************************)
NonFinishers == {"DNF", "DNS", "NR", "DSQ", "OTL", "DF"}

Series == [kind |-> "Series"]

\* `k in results`: a key of a dict, a column of a DataFrame, an index label
\* (an integer position, never a string) of a Series
key_in(k, results) ==
    CASE results.kind = "dict" ->
            \E i \in 1..Len(results.items) : results.items[i].name = k
      [] results.kind = "DataFrame" -> k \in results.columns
      [] OTHER -> FALSE

\* `results[k]`
getitem(results, k) ==
    IF results.kind = "dict"
    THEN results.items[CHOOSE i \in 1..Len(results.items) : results.items[i].name = k].node
    ELSE Series

\* the walk along `key`
RECURSIVE extract_results(_, _, _)
extract_results(results, key, strict) ==
    IF key = <<>> THEN [kind |-> "ok", error |-> "", node |-> results]
    ELSE IF key_in(key[1], results)
         THEN extract_results(getitem(results, key[1]), Tail(key), strict)
         ELSE IF strict
              THEN [kind |-> "raise", error |-> "ValueError", node |-> Series]
              ELSE [kind |-> "return", error |-> "", node |-> Series]

\* a single DataFrame becomes the one subtable "general"; anything that is
\* neither a DataFrame nor a dict is rejected
as_subtables(results, strict) ==
    CASE results.kind = "DataFrame" ->
            [kind |-> "ok", error |-> "",
             items |-> <<[name |-> "general", node |-> results]>>]
      [] results.kind = "dict" ->
            [kind |-> "ok", error |-> "", items |-> results.items]
      [] OTHER ->
            IF strict THEN [kind |-> "raise", error |-> "TypeError", items |-> <<>>]
                      ELSE [kind |-> "return", error |-> "", items |-> <<>>]

\* a scoring that keeps the riders that didn't finish
filter_nothing(result) == result.rows

\* riders that didn't finish are filtered on the "Rnk" column
filter_finishers(result) ==
    IF "Rnk" \in result.columns
    THEN SelectSeq(result.rows, LAMBDA r : r["Rnk"] \notin NonFinishers)
    ELSE result.rows

required_columns(kw) ==
    {"Rider", "Team", kw.rank_by}
        \cup (IF kw.points.isstr THEN {kw.points.column} ELSE {})

\* a truncation that keeps the leading values of the ladder
trim_points_leading(points, n) == SubSeq(points, 1, n)

\* points[(-1 * len(result)):]
trim_points(points, n) == SubSeq(points, Len(points) - n + 1, Len(points))

\* a cast that a rule without `strict` survives by skipping the subtable
rank_cast_gated(rows, kw) ==
    IF \E i \in 1..Len(rows) : ~CanCastInt(rows[i][kw.rank_by])
    THEN IF kw.strict THEN "raise" ELSE "skip"
    ELSE "go"

\* result.astype({rank_by: int}) raises on a value that int() rejects,
\* whatever `strict` is
rank_cast(rows, kw) ==
    IF \E i \in 1..Len(rows) : ~CanCastInt(rows[i][kw.rank_by])
    THEN "raise"
    ELSE "go"

\* an empty result that is fatal whatever `strict` is
empty_result_fatal(rows, kw) ==
    IF Len(rows) = 0 THEN "raise" ELSE "go"

\* len(result) == 0
empty_result(rows, kw) ==
    IF Len(rows) = 0
    THEN IF kw.strict THEN "raise" ELSE "skip"
    ELSE "go"

\* result[required_columns] raising KeyError
missing_columns(result, kw) ==
    IF ~(required_columns(kw) \subseteq result.columns)
    THEN IF kw.strict THEN "raise" ELSE "skip"
    ELSE "go"

SubSkip(points) == [kind |-> "skip", error |-> "", rows |-> <<>>, points |-> points]

SubRaise(e, points) == [kind |-> "raise", error |-> e, rows |-> <<>>, points |-> points]

\* the way a failed check ends the scoring of a subtable
SubEnd(outcome, e, points) ==
    IF outcome = "raise" THEN SubRaise(e, points) ELSE SubSkip(points)

\* a pass-through that gives points to the first sorted row only
pass_through_first(sorted, kw, name, points) ==
    IF \E i \in 1..Len(sorted) : ~CanCastInt(sorted[i][kw.points.column])
    THEN SubRaise("ValueError", points)
    ELSE [kind |-> "ok", error |-> "", points |-> points,
          rows |-> [i \in 1..Min(1, Len(sorted)) |->
                      [Rider |-> sorted[i]["Rider"], Team |-> sorted[i]["Team"],
                       v |-> (name :> IntOfStr[sorted[i][kw.points.column]])]]]

\* result[name] = result[points].astype(int): every sorted row gets the
\* integer in its points column
pass_through(sorted, kw, name, points) ==
    IF \E i \in 1..Len(sorted) : ~CanCastInt(sorted[i][kw.points.column])
    THEN SubRaise("ValueError", points)
    ELSE [kind |-> "ok", error |-> "", points |-> points,
          rows |-> [i \in 1..Len(sorted) |->
                      [Rider |-> sorted[i]["Rider"], Team |-> sorted[i]["Team"],
                       v |-> (name :> IntOfStr[sorted[i][kw.points.column]])]]]

\* the ladder, trimmed when the result is shorter, goes to the first
\* len(points) sorted rows
ladder_points(sorted, name, points) ==
    With(IF Len(sorted) < Len(points) THEN trim_points(points, Len(sorted)) ELSE points,
         LAMBDA pts :
            [kind |-> "ok", error |-> "", points |-> pts,
             rows |-> [i \in 1..Len(pts) |->
                         [Rider |-> sorted[i]["Rider"], Team |-> sorted[i]["Team"],
                          v |-> (name :> pts[i])]]])

\* the rows that finished, cast and sorted by rank, get their points
assign_points(rows, kw, name, points) ==
    With(sort_values(rows, [i \in 1..Len(rows) |-> IntOfStr[rows[i][kw.rank_by]]],
                     kw.ascending),
         LAMBDA sorted :
            IF kw.points.isstr THEN pass_through(sorted, kw, name, points)
            ELSE ladder_points(sorted, name, points))

\* the body of the loop over the subtables, for a subtable that is not in the
\* key filter; `points` is the ladder as the loop has left it so far
score_subtable(result, kw, name, points) ==
    IF result.kind # "DataFrame" THEN SubRaise("AttributeError", points)
    ELSE With(filter_finishers(result), LAMBDA rows :
         With(<<empty_result(rows, kw), missing_columns(result, kw)>>, LAMBDA chk :
            IF chk[1] # "go" THEN SubEnd(chk[1], "ValueError", points)
            ELSE IF chk[2] # "go" THEN SubEnd(chk[2], "KeyError", points)
            ELSE With(rank_cast(rows, kw), LAMBDA cast :
                    IF cast # "go" THEN SubEnd(cast, "ValueError", points)
                    ELSE assign_points(rows, kw, name, points))))

NoPodium == [isnone |-> TRUE, cols |-> {}, rows |-> <<>>]

\* the loop over the subtables: the list `podia` (None for a subtable that
\* gives nothing), or the exception that ended it
RECURSIVE subtable_loop(_, _, _, _, _)
subtable_loop(items, kw, name, points, podia) ==
    IF items = <<>> THEN [kind |-> "ok", error |-> "", podia |-> podia]
    ELSE IF \E j \in 1..Len(kw.key_filter) : kw.key_filter[j] = items[1].name
    THEN subtable_loop(Tail(items), kw, name, points, Append(podia, NoPodium))
    ELSE With(score_subtable(items[1].node, kw, name, points), LAMBDA s :
            IF s.kind = "raise"
            THEN [kind |-> "raise", error |-> s.error, podia |-> podia]
            ELSE subtable_loop(Tail(items), kw, name, s.points,
                    Append(podia,
                           IF s.kind = "skip" THEN NoPodium
                           ELSE [isnone |-> FALSE, cols |-> {name}, rows |-> s.rows])))

\* name = name or rank_by
name_of(kw) == IF kw.name = "" THEN kw.rank_by ELSE kw.name

\* the list `podia` of a call (empty when the call ends before the loop)
podia_of(stage, kw) ==
    With(extract_results(stage.results, kw.key, kw.strict), LAMBDA x :
        IF x.kind # "ok" THEN [kind |-> x.kind, error |-> x.error, podia |-> <<>>]
        ELSE With(as_subtables(x.node, kw.strict), LAMBDA t :
                IF t.kind # "ok" THEN [kind |-> t.kind, error |-> t.error, podia |-> <<>>]
                ELSE subtable_loop(t.items, kw, name_of(kw), kw.points.list, <<>>)))

\* the podia that are not None, merged into the podium of the rule
merge_podia(podia, name) ==
    With(SelectSeq(podia, LAMBDA p : ~p.isnone), LAMBDA found :
        IF Len(found) = 0 THEN None
        ELSE With(sort_desc(groupby_sum(concat(found)), name), LAMBDA f :
                Frame(f.cols, f.rows)))

scoring_function(stage, kw) ==
    With(podia_of(stage, kw), LAMBDA l :
        CASE l.kind = "raise" -> Raise(l.error)
          [] l.kind = "return" -> None
          [] OTHER -> merge_podia(l.podia, name_of(kw)))

(***************************************************************************)
(* score.py: score_stage and score_race                                    *)
(***************************************************************************)
\* a loop over the rules that a rule without a podium ends
RECURSIVE apply_rules_break(_, _, _)
apply_rules_break(stage, rules, podia) ==
    IF rules = <<>> THEN [kind |-> "ok", error |-> "", podia |-> podia]
    ELSE With(scoring_function(stage, rules[1].kwargs), LAMBDA p :
            IF p.kind = "Error"
            THEN [kind |-> "raise", error |-> p.error, podia |-> podia]
            ELSE IF p.kind = "None"
            THEN [kind |-> "ok", error |-> "", podia |-> podia]
            ELSE apply_rules_break(stage, Tail(rules), Append(podia, p)))

\* a loop `podium = scoring_function(stage, **kwargs)` over the rules of one
\* group of the template, appending to `podia`; an exception ends it
RECURSIVE apply_rules(_, _, _)
apply_rules(stage, rules, podia) ==
    IF rules = <<>> THEN [kind |-> "ok", error |-> "", podia |-> podia]
    ELSE With(scoring_function(stage, rules[1].kwargs), LAMBDA p :
            IF p.kind = "Error"
            THEN [kind |-> "raise", error |-> p.error, podia |-> podia]
            ELSE apply_rules(stage, Tail(rules),
                             IF p.kind = "None" THEN podia ELSE Append(podia, p)))

\* the columns summed into Total by score_stage: all but Rider and Team
point_columns_stage(cols) == cols

\* a sum that takes in the Total column the stage ledgers bring along
point_columns_all(cols) == cols

\* the columns summed into Total by score_race: all but Rider, Team and Total
point_columns_race(cols) == cols \ {"Total"}

\* podium["Total"] = podium[point_columns].sum(axis=1)
set_total(frame, point_columns) ==
    [cols |-> frame.cols \cup {"Total"},
     rows |-> [i \in 1..Len(frame.rows) |->
                 [Rider |-> frame.rows[i].Rider, Team |-> frame.rows[i].Team,
                  v |-> [c \in frame.cols \cup {"Total"} |->
                           IF c = "Total" THEN SumFn(frame.rows[i].v, point_columns)
                           ELSE frame.rows[i].v[c]]]]]

\* the rules a stage is scored with: none when the stage has no name
stage_rules(stage, template) ==
    IF stage.stage_name = "None" THEN <<>> ELSE template.stage

\* the ledger of the podia of a stage: grouped, totalled, sorted by Total
stage_ledger(podia) ==
    With(groupby_sum(concat(podia)), LAMBDA g :
    With(sort_desc(set_total(g, point_columns_stage(g.cols)), "Total"), LAMBDA f :
        Frame(f.cols, f.rows)))

score_stage(stage, template) ==
    With(apply_rules(stage, stage_rules(stage, template), <<>>), LAMBDA l :
        IF l.kind = "raise" THEN Raise(l.error)
        ELSE IF Len(l.podia) = 0 THEN None
        ELSE stage_ledger(l.podia))

\* the loop over race.stages
RECURSIVE score_all_stages(_, _, _)
score_all_stages(race_stages, template, podia) ==
    IF race_stages = <<>> THEN [kind |-> "ok", error |-> "", podia |-> podia]
    ELSE With(score_stage(race_stages[1], template), LAMBDA p :
            IF p.kind = "Error"
            THEN [kind |-> "raise", error |-> p.error, podia |-> podia]
            ELSE score_all_stages(Tail(race_stages), template,
                                  IF p.kind = "None" THEN podia ELSE Append(podia, p)))

\* race rules applied to the first stage
race_podia_first(race_stages, template, podia) ==
    IF Len(race_stages) > 0
    THEN apply_rules(race_stages[1], template.race, podia)
    ELSE [kind |-> "ok", error |-> "", podia |-> podia]

\* the race rules are applied to the last stage
race_podia(race_stages, template, podia) ==
    IF Len(race_stages) > 0
    THEN apply_rules(race_stages[Len(race_stages)], template.race, podia)
    ELSE [kind |-> "ok", error |-> "", podia |-> podia]

\* the ledger of the podia of a race: grouped, totalled, sorted by Total
race_ledger(podia) ==
    With(groupby_sum(concat(podia)), LAMBDA g :
    With(sort_desc(set_total(g, point_columns_race(g.cols)), "Total"), LAMBDA f :
        Frame(f.cols, f.rows)))

score_race(race_stages, template, score_stages) ==
    With(IF score_stages THEN score_all_stages(race_stages, template, <<>>)
         ELSE [kind |-> "ok", error |-> "", podia |-> <<>>],
         LAMBDA s :
            IF s.kind = "raise" THEN Raise(s.error)
            ELSE With(race_podia(race_stages, template, s.podia), LAMBDA l :
                    IF l.kind = "raise" THEN Raise(l.error)
                    ELSE IF Len(l.podia) = 0 THEN None
                    ELSE race_ledger(l.podia)))

(***************************************************************************)
(* score.py: what the calls leave of the score template.                   *)
(***************************************************************************)
\* the local `points` as the loop over the subtables leaves it
RECURSIVE points_after_loop(_, _, _, _)
points_after_loop(items, kw, name, points) ==
    IF items = <<>> THEN points
    ELSE IF \E j \in 1..Len(kw.key_filter) : kw.key_filter[j] = items[1].name
    THEN points_after_loop(Tail(items), kw, name, points)
    ELSE With(score_subtable(items[1].node, kw, name, points), LAMBDA s :
            IF s.kind = "raise" THEN s.points
            ELSE points_after_loop(Tail(items), kw, name, s.points))

\* the local `points` at the end of a call of scoring_function
points_after(stage, kw) ==
    With(extract_results(stage.results, kw.key, kw.strict), LAMBDA x :
        IF x.kind # "ok" THEN kw.points.list
        ELSE With(as_subtables(x.node, kw.strict), LAMBDA t :
                IF t.kind # "ok" THEN kw.points.list
                ELSE points_after_loop(t.items, kw, name_of(kw), kw.points.list)))

\* a truncation that cuts the list of the caller
caller_list_cut(original, local) == local

\* the list of the template after a call: `points = points[...]` binds the
\* local name to a new list, the list of the caller stays as it is
caller_list(original, local) == original

\* the rules of a group after each was handed to scoring_function for a
\* stage (a rule the loop does not get to keeps its list as well)
rules_after(stage, rules) ==
    [j \in 1..Len(rules) |->
        [rules[j] EXCEPT !.kwargs.points.list =
            caller_list(@, points_after(stage, rules[j].kwargs))]]

template_after_stage(stage, template) ==
    IF stage.stage_name = "None" THEN template
    ELSE [template EXCEPT !.stage = rules_after(stage, @)]

RECURSIVE template_after_stages(_, _)
template_after_stages(race_stages, template) ==
    IF race_stages = <<>> THEN template
    ELSE template_after_stages(Tail(race_stages),
                               template_after_stage(race_stages[1], template))

template_after_race(race_stages, template, score_stages) ==
    With(IF score_stages THEN template_after_stages(race_stages, template) ELSE template,
         LAMBDA t :
            IF Len(race_stages) > 0
            THEN [t EXCEPT !.race = rules_after(race_stages[Len(race_stages)], @)]
            ELSE t)

(***************************************************************************)
(* Inputs: result tables, results trees and rules.                         *)
(***************************************************************************)
AllColumns == {"Rider", "Team", "Rnk", "Pnt"}

ColumnSets ==
    {AllColumns, AllColumns \ {"Rnk"}, AllColumns \ {"Pnt"}, AllColumns \ {"Team"}}

\* the (Rnk, Pnt) cells of a row: finishers (two of them tied on Rnk), a
\* non-finisher, a row whose Pnt is a status, a row whose Rnk is no number
RowVals ==
    {[Rnk |-> "1", Pnt |-> "2"], [Rnk |-> "2", Pnt |-> "1"], [Rnk |-> "2", Pnt |-> "3"],
     [Rnk |-> "DNF", Pnt |-> "1"], [Rnk |-> "1", Pnt |-> "DSQ"], [Rnk |-> "x", Pnt |-> "2"]}

\* the table with the given columns whose i-th row is competitor i + offset
make_table(columns, vals, offset) ==
    [kind |-> "DataFrame", columns |-> columns,
     rows |-> [i \in 1..Len(vals) |->
                 LET full == [Rider |-> Competitors[i + offset].Rider,
                              Team |-> Competitors[i + offset].Team,
                              Rnk |-> vals[i].Rnk, Pnt |-> vals[i].Pnt]
                 IN [c \in columns |-> full[c]]]]

Tables == {make_table(cs, vals, 0) : cs \in ColumnSets, vals \in SeqsUpTo(RowVals, MaxRows)}

Dict(items) == [kind |-> "dict", items |-> items]

Item(name, node) == [name |-> name, node |-> node]

\* the subtables of a tab with several classifications
SubVals ==
    {<<[Rnk |-> "1", Pnt |-> "2"], [Rnk |-> "2", Pnt |-> "1"], [Rnk |-> "2", Pnt |-> "3"]>>,
     <<[Rnk |-> "2", Pnt |-> "1"], [Rnk |-> "DNF", Pnt |-> "1"]>>,
     <<[Rnk |-> "1", Pnt |-> "2"]>>,
     <<[Rnk |-> "DNF", Pnt |-> "1"]>>,
     <<[Rnk |-> "x", Pnt |-> "2"]>>}

SubTables(offset) ==
    {make_table(AllColumns, vals, offset) : vals \in SubVals}
        \cup {make_table(AllColumns \ {"Pnt"}, vals, offset) :
                vals \in {<<[Rnk |-> "2", Pnt |-> "1"], [Rnk |-> "1", Pnt |-> "2"]>>}}

RuleTrees ==
    {Dict(<<Item("Stage", t)>>) : t \in Tables}
        \cup {Dict(<<Item("Stage", Dict(<<Item("General", a), Item("Youth", b)>>))>>) :
                a \in SubTables(0), b \in SubTables(1)}
        \cup {Dict(<<Item("Stage", Dict(<<Item("General", Dict(<<Item("Sprint", a)>>))>>))>>) :
                a \in SubTables(0)}
        \cup {Dict(<<Item("Stage", Dict(<<>>))>>), Dict(<<>>)}

Ladder(list) == [isstr |-> FALSE, column |-> "", list |-> list]

Column(c) == [isstr |-> TRUE, column |-> c, list |-> <<>>]

Ladders == {<<3>>, <<5, 3>>, <<50, 40, 30, 20, 10>>}

Kwargs(key, key_filter, rank_by, points, name, ascending, strict) ==
    [key |-> key, key_filter |-> key_filter, rank_by |-> rank_by, points |-> points,
     name |-> name, ascending |-> ascending, strict |-> strict]

Rules ==
    {Kwargs(<<"Stage">>, <<>>, rb, Ladder(l), "", asc, st) :
        rb \in {"Rnk", "Pnt"}, l \in Ladders, asc \in BOOLEAN, st \in BOOLEAN}
    \cup {Kwargs(<<"Stage">>, <<>>, "Rnk", Column("Pnt"), "UCI", asc, st) :
        asc \in BOOLEAN, st \in BOOLEAN}
    \cup {Kwargs(k, <<>>, "Rnk", Ladder(<<5, 3>>), "", TRUE, st) :
        k \in {<<"GC">>, <<"Stage", "General">>, <<"Stage", "Rnk">>}, st \in BOOLEAN}
    \cup {Kwargs(<<"Stage">>, kf, "Rnk", Ladder(<<5, 3>>), "", TRUE, st) :
        kf \in {<<"general">>, <<"Youth">>, <<"General", "Youth">>}, st \in BOOLEAN}

NoKwargs == Kwargs(<<>>, <<>>, "", Ladder(<<>>), "", TRUE, FALSE)

NoTemplate == [stage |-> <<>>, race |-> <<>>]

NoCall == [op |-> "", stage |-> 0, kwargs |-> NoKwargs, score_stages |-> FALSE]

NoResult == [called |-> FALSE, none |-> TRUE, x |-> <<>>, fun |-> 0]

(***************************************************************************)
(* SpecRule: scoring_function applied to one stage.                        *)
(***************************************************************************)
NoTeam ==
    /\ riders = <<>>
    /\ nriders = 0
    /\ budget = 0
    /\ optimized_result = NoResult

\* Python values handed to and returned by the calendar functions
PyNone == [kind |-> "NoneType", items |-> <<>>, v |-> ""]

PyStr(s) == [kind |-> "str", items |-> <<>>, v |-> s]

PyInt(s) == [kind |-> "int", items |-> <<>>, v |-> s]

PyList(items) == [kind |-> "list", items |-> items, v |-> ""]

PyTuple(items) == [kind |-> "tuple", items |-> items, v |-> ""]

\* how a call ends: with a return value or with an exception
Returns(value) == [raised |-> "", value |-> value]

Raises(e) == [raised |-> e, value |-> PyNone]

\* no file, no request sent, nothing returned by a calendar or download call
NoFiles == [folders |-> {}, files |-> {}]

NoOutcome == Returns(PyNone)

NoDownload ==
    /\ filesystem = NoFiles
    /\ requests = <<>>
    /\ returned = NoOutcome

InitRule ==
    /\ \E tree \in RuleTrees : stages = <<[stage_name |-> "Stage 1", results |-> tree]>>
    /\ score_template = NoTemplate
    /\ call = NoCall
    /\ podium = None
    /\ NoTeam
    /\ NoDownload

ScoringFunction ==
    /\ call.op = ""
    /\ \E i \in 1..Len(stages), kw \in Rules :
          /\ call' = [op |-> "scoring_function", stage |-> i, kwargs |-> kw,
                      score_stages |-> FALSE]
          /\ podium' = scoring_function(stages[i], kw)
    /\ UNCHANGED <<stages, score_template, riders, nriders, budget, optimized_result,
                   filesystem, requests, returned>>

NextRule == ScoringFunction

SpecRule == InitRule /\ [][NextRule]_vars

(***************************************************************************)
(* Spec: score_stage and score_race applied to the stages of a race.       *)
(***************************************************************************)
Val(rnk, pnt) == [Rnk |-> rnk, Pnt |-> pnt]

\* what the "Stage" tab of a stage can hold
StageTabs ==
    {make_table(AllColumns, <<Val("2", "1"), Val("1", "2"), Val("2", "3")>>, 0),
     make_table(AllColumns, <<Val("1", "3"), Val("DNF", "1")>>, 1),
     make_table(AllColumns \ {"Pnt"}, <<Val("1", "2"), Val("2", "1")>>, 0),
     make_table(AllColumns, <<Val("x", "2"), Val("1", "1")>>, 0),
     make_table(AllColumns \ {"Pnt"}, <<Val("x", "2"), Val("1", "1")>>, 0),
     Dict(<<Item("General", make_table(AllColumns, <<Val("1", "2")>>, 2)),
            Item("Youth", make_table(AllColumns, <<Val("DNF", "1")>>, 0))>>)}

\* what the "GC" tab of a stage can hold, when the stage has one
GcTabs ==
    {make_table(AllColumns, <<Val("2", "1"), Val("1", "2")>>, 1)}

Stages ==
    {[stage_name |-> "Stage", results |-> Dict(<<Item("Stage", x)>>)] : x \in StageTabs}
        \cup {[stage_name |-> "Stage", results |-> Dict(<<Item("Stage", x), Item("GC", y)>>)] :
                x \in {t \in StageTabs : t.kind = "dict" \/ Len(t.rows) = 3}, y \in GcTabs}
        \cup {[stage_name |-> "None",
               results |-> Dict(<<Item("Stage", x), Item("GC", y)>>)] :
                x \in {make_table(AllColumns, <<Val("1", "2")>>, 0)}, y \in GcTabs}

Rule(id, kwargs) == [id |-> id, kwargs |-> kwargs]

WinRule(strict) ==
    Rule("win", Kwargs(<<"Stage">>, <<"Youth">>, "Rnk", Ladder(<<5, 3>>), "Win", TRUE, strict))

UciRule == Rule("uci", Kwargs(<<"Stage">>, <<>>, "Rnk", Column("Pnt"), "UCI", TRUE, FALSE))

KomRule == Rule("kom", Kwargs(<<"KOM">>, <<>>, "Rnk", Ladder(<<3>>), "KOM", TRUE, FALSE))

GcRule(strict) ==
    Rule("gc", Kwargs(<<"GC">>, <<>>, "Rnk", Ladder(<<5, 3, 1>>), "GC", TRUE, strict))

PntRule == Rule("pnt", Kwargs(<<"Stage">>, <<>>, "Pnt", Ladder(<<3>>), "", FALSE, FALSE))

Templates ==
    {[stage |-> <<WinRule(FALSE), UciRule>>, race |-> <<GcRule(FALSE)>>],
     [stage |-> <<WinRule(TRUE), KomRule>>, race |-> <<>>],
     [stage |-> <<KomRule, WinRule(FALSE), PntRule>>, race |-> <<GcRule(TRUE)>>],
     [stage |-> <<UciRule, GcRule(FALSE)>>, race |-> <<KomRule, GcRule(FALSE)>>],
     [stage |-> <<>>, race |-> <<GcRule(FALSE), PntRule>>],
     [stage |-> <<KomRule>>, race |-> <<KomRule>>]}

Init ==
    /\ stages \in SeqsUpTo(Stages, MaxStages)
    /\ score_template \in Templates
    /\ call = NoCall
    /\ podium = None
    /\ NoTeam
    /\ NoDownload

ScoreStage ==
    /\ \E i \in 1..Len(stages) :
          /\ call' = [op |-> "score_stage", stage |-> i, kwargs |-> NoKwargs,
                      score_stages |-> FALSE]
          /\ podium' = score_stage(stages[i], score_template)
          /\ score_template' = template_after_stage(stages[i], score_template)
    /\ UNCHANGED <<stages, riders, nriders, budget, optimized_result,
                   filesystem, requests, returned>>

ScoreRace ==
    /\ \E b \in BOOLEAN :
          /\ call' = [op |-> "score_race", stage |-> 0, kwargs |-> NoKwargs,
                      score_stages |-> b]
          /\ podium' = score_race(stages, score_template, b)
          /\ score_template' = template_after_race(stages, score_template, b)
    /\ UNCHANGED <<stages, riders, nriders, budget, optimized_result,
                   filesystem, requests, returned>>

Next == ScoreStage \/ ScoreRace

Spec == Init /\ [][Next]_vars

(***************************************************************************)
(* best_team.py: select_best_team                                          *)
(***************************************************************************)
Dot(a, x) == SumSeq([i \in 1..Len(a) |-> a[i] * x[i]])

LinearConstraint(A, lb, ub) == [A |-> A, lb |-> lb, ub |-> ub]

\* an objective that is not negated: milp then minimizes the points
objective_points(team) == [i \in 1..Len(team) |-> team[i].Points]

\* milp only minimizes, so the objective is the negated points
objective_function(team) == [i \in 1..Len(team) |-> (-1) * team[i].Points]

\* a constraint of at most nriders riders
nriders_at_most(team, n) ==
    LinearConstraint([i \in 1..Len(team) |-> 1], 0, n)

\* the sum of all selected riders must be exactly nriders
nriders_constraint(team, n) ==
    LinearConstraint([i \in 1..Len(team) |-> 1], n, n)

\* a price constraint without an upper bound
budget_unbounded(team, b) ==
    LinearConstraint([i \in 1..Len(team) |-> team[i].Price], 0,
                     SumSeq([i \in 1..Len(team) |-> team[i].Price]))

\* the total price of the selected riders may not exceed the budget
budget_constraint(team, b) ==
    LinearConstraint([i \in 1..Len(team) |-> team[i].Price], 0, b)

\* scipy.optimize.milp with integrality 1 and bounds (0, 1): some minimizer
\* of c.x over the 0/1 vectors that satisfy the constraints, with its
\* objective value; x and fun are None when there is none
milp(c, constraints) ==
    LET feasible == {x \in [1..Len(c) -> {0, 1}] :
                        \A k \in 1..Len(constraints) :
                            /\ constraints[k].lb <= Dot(constraints[k].A, x)
                            /\ Dot(constraints[k].A, x) <= constraints[k].ub}
        best == {x \in feasible : \A y \in feasible : Dot(c, x) <= Dot(c, y)}
    IN IF feasible = {}
       THEN {[called |-> TRUE, none |-> TRUE, x |-> <<>>, fun |-> 0]}
       ELSE {[called |-> TRUE, none |-> FALSE, x |-> x, fun |-> Dot(c, x)] : x \in best}

\* the (x, fun) pairs a call can return
select_best_team(team, n, b) ==
    milp(objective_function(team),
         <<nriders_constraint(team, n), budget_constraint(team, b)>>)

(***************************************************************************)
(* SpecTeam: select_best_team applied to a list of priced riders.          *)
(***************************************************************************)
Candidates == {[Points |-> pt, Price |-> pr] : pt \in {0, 6, 10}, pr \in {30, 50}}

\* the worked example: Points [10,8,6,4], Price 30 each
ExampleRiders ==
    <<[Points |-> 10, Price |-> 30], [Points |-> 8, Price |-> 30],
      [Points |-> 6, Price |-> 30], [Points |-> 4, Price |-> 30]>>

Budgets == {0, 60, 90, 200}

InitTeam ==
    /\ \/ /\ riders \in SeqsUpTo(Candidates, MaxRiders) \ {<<>>}
          /\ nriders \in 0..(MaxRiders + 1)
          /\ budget \in Budgets
       \/ /\ riders = ExampleRiders
          /\ nriders \in {3, 5}
          /\ budget = 90
    /\ optimized_result = NoResult
    /\ stages = <<>>
    /\ score_template = NoTemplate
    /\ call = NoCall
    /\ podium = None
    /\ NoDownload

SelectBestTeam ==
    /\ ~optimized_result.called
    /\ optimized_result' \in select_best_team(riders, nriders, budget)
    /\ UNCHANGED <<riders, nriders, budget, stages, score_template, call, podium,
                   filesystem, requests, returned>>

NextTeam == SelectBestTeam

SpecTeam == InitTeam /\ [][NextTeam]_vars

(***************************************************************************)
(* Properties of scoring_function (SpecRule).                              *)
(***************************************************************************)
CalledRule == call.op = "scoring_function"

\* the node the key of the call leads to, and the rows of a table that
\* finished
CallNode == extract_results(stages[call.stage].results, call.kwargs.key, FALSE)

Finished(table) ==
    SelectSeq(table.rows,
              LAMBDA r : ~("Rnk" \in table.columns /\ r["Rnk"] \in NonFinishers))

\* the value the podium gives a competitor, -1 when it has no row for it
PodiumValue(p, key, column) ==
    IF \E i \in 1..Len(p.rows) : KeyOf(p.rows[i]) = key
    THEN p.rows[CHOOSE i \in 1..Len(p.rows) : KeyOf(p.rows[i]) = key].v[column]
    ELSE -1

\* the call is a ladder rule on a single table that has the columns of the
\* rule and integer ranks
C1_Applies ==
    /\ CalledRule
    /\ ~call.kwargs.points.isstr
    /\ CallNode.kind = "ok"
    /\ CallNode.node.kind = "DataFrame"
    /\ \A j \in 1..Len(call.kwargs.key_filter) : call.kwargs.key_filter[j] # "general"
    /\ {"Rider", "Team", call.kwargs.rank_by} \subseteq CallNode.node.columns
    /\ \A i \in 1..Len(Finished(CallNode.node)) :
          CanCastInt(Finished(CallNode.node)[i][call.kwargs.rank_by])

C1_Rank(i) == IntOfStr[Finished(CallNode.node)[i][call.kwargs.rank_by]]

C1_NotAfter(i, j) ==
    IF call.kwargs.ascending THEN C1_Rank(i) <= C1_Rank(j) ELSE C1_Rank(i) >= C1_Rank(j)

\* the ladder values handed out: the whole ladder, or its last N values
C1_Assigned ==
    LET ladder == call.kwargs.points.list
        N == Len(Finished(CallNode.node))
        L == Len(ladder)
    IN IF N >= L THEN ladder ELSE [i \in 1..N |-> ladder[L - N + i]]

\* C1: a ladder rule on a single table with N finishers and a ladder of
\* length L gives points to exactly min(N, L) competitors: the first min(N, L)
\* finishers in rank order get, position by position, the ladder (N >= L) or
\* the last N values of the ladder (N < L).
C1_LadderAssignment ==
    C1_Applies =>
        LET E == Finished(CallNode.node)
            N == Len(E)
            M == Min(N, Len(call.kwargs.points.list))
            col == name_of(call.kwargs)
        IN IF N = 0 THEN podium.kind # "DataFrame"
           ELSE /\ podium.kind = "DataFrame"
                /\ Len(podium.rows) = M
                /\ \E order \in [1..M -> 1..N] :
                      /\ \A a, b \in 1..M : a < b =>
                            order[a] # order[b] /\ C1_NotAfter(order[a], order[b])
                      /\ \A a \in 1..M : \A j \in 1..N :
                            (\A b \in 1..M : order[b] # j) => C1_NotAfter(order[a], j)
                      /\ \A a \in 1..M :
                            PodiumValue(podium, KeyOf(E[order[a]]), col) = C1_Assigned[a]

\* three finishers under the ladder [50, 40, 30, 20, 10]: the winner has 30
C1_Witness ==
    /\ C1_Applies
    /\ call.kwargs.points.list = <<50, 40, 30, 20, 10>>
    /\ call.kwargs.rank_by = "Rnk"
    /\ call.kwargs.ascending
    /\ Len(Finished(CallNode.node)) = 3
    /\ podium.kind = "DataFrame"
    /\ \E i \in 1..3 :
          /\ Finished(CallNode.node)[i]["Rnk"] = "1"
          /\ PodiumValue(podium, KeyOf(Finished(CallNode.node)[i]), "Rnk") = 30

\* the subtables the call goes through (none when the key does not resolve)
CallSubtables ==
    IF CallNode.kind = "ok" THEN as_subtables(CallNode.node, FALSE).items ELSE <<>>

\* a row that carries a non-finisher status, in the Rnk column or in the
\* column the rule ranks by
C2_NonFinisher(table, r, kw) ==
    \/ "Rnk" \in table.columns /\ r["Rnk"] \in NonFinishers
    \/ kw.rank_by \in table.columns /\ r[kw.rank_by] \in NonFinishers

\* C2: a row whose rank/status is DNF, DNS, NR, DSQ, OTL or DF never
\* contributes points: the podium of its subtable has no row for it, and a
\* competitor who is a non-finisher wherever it appears is not in the result.
C2_NonFinishersUnscored ==
    (CalledRule /\ podium.kind = "DataFrame") =>
        LET kw == call.kwargs
            l == podia_of(stages[call.stage], kw)
        IN /\ \A s \in 1..Len(CallSubtables) :
                LET t == CallSubtables[s].node IN
                (t.kind = "DataFrame" /\ {"Rider", "Team"} \subseteq t.columns) =>
                    \A i \in 1..Len(t.rows) :
                        C2_NonFinisher(t, t.rows[i], kw) =>
                            \A j \in 1..Len(l.podia[s].rows) :
                                KeyOf(l.podia[s].rows[j]) # KeyOf(t.rows[i])
           /\ \A c \in 1..Len(Competitors) :
                (\A s \in 1..Len(CallSubtables) :
                    LET t == CallSubtables[s].node IN
                    /\ t.kind = "DataFrame"
                    /\ {"Rider", "Team"} \subseteq t.columns
                    /\ \A i \in 1..Len(t.rows) :
                          KeyOf(t.rows[i]) = Competitors[c] =>
                              C2_NonFinisher(t, t.rows[i], kw))
                => PodiumValue(podium, Competitors[c], name_of(kw)) = -1

\* a table with a DNF row and a finisher, ranked by another column than Rnk:
\* the finisher is scored, the DNF row is not
C2_Witness ==
    /\ CalledRule
    /\ call.kwargs.rank_by = "Pnt"
    /\ podium.kind = "DataFrame"
    /\ Len(CallSubtables) = 1
    /\ "Rnk" \in CallSubtables[1].node.columns
    /\ \E i, j \in 1..Len(CallSubtables[1].node.rows) :
          /\ CallSubtables[1].node.rows[i]["Rnk"] = "DNF"
          /\ CallSubtables[1].node.rows[j]["Rnk"] = "1"
          /\ PodiumValue(podium, KeyOf(CallSubtables[1].node.rows[i]), "Pnt") = -1
          /\ PodiumValue(podium, KeyOf(CallSubtables[1].node.rows[j]), "Pnt") > 0

\* the call as it goes for the same rule without `strict`
NonStrictPodium ==
    scoring_function(stages[call.stage], [call.kwargs EXCEPT !.strict = FALSE])

\* C8: a rule with strict set never returns None: whenever the rule without
\* strict returns None for a stage, the rule with strict raises for it.
C8_StrictNeverSilent ==
    (CalledRule /\ call.kwargs.strict /\ NonStrictPodium.kind = "None")
        => podium.kind = "Error"

(***************************************************************************)
(* Properties of score_stage and score_race (Spec).                        *)
(***************************************************************************)
CalledLedger == call.op \in {"score_stage", "score_race"}

\* C3: in every ledger score_stage or score_race returns, the Total of a row
\* is the sum of the row's rule columns (0 where the competitor has no points
\* under a rule); the Totals of the stage ledgers are not added on top.
C3_TotalIsSumOfColumns ==
    (CalledLedger /\ podium.kind = "DataFrame") =>
        /\ "Total" \in podium.cols
        /\ \A i \in 1..Len(podium.rows) :
              /\ DOMAIN podium.rows[i].v = podium.cols
              /\ podium.rows[i].v["Total"]
                    = SumFn(podium.rows[i].v, podium.cols \ {"Total"})

\* a race of two stages scored with its stages: a competitor with points
\* under one rule and none under another
C3_Witness ==
    /\ call.op = "score_race"
    /\ call.score_stages
    /\ Len(stages) = 2
    /\ podium.kind = "DataFrame"
    /\ \E i \in 1..Len(podium.rows) : \E c, d \in podium.cols \ {"Total"} :
          /\ podium.rows[i].v[c] > 0
          /\ podium.rows[i].v[d] = 0
          /\ podium.rows[i].v["Total"] > 5

\* the stages whose stage rules the call applies, and the (stage, rule)
\* pairs it hands to scoring_function when nothing raises before
AppliedStages ==
    IF call.op = "score_stage" THEN {call.stage}
    ELSE IF call.op = "score_race" /\ call.score_stages THEN 1..Len(stages)
    ELSE {}

AppliedStagePairs ==
    {<<stages[i], score_template.stage[j].kwargs>> :
        i \in {k \in AppliedStages : stages[k].stage_name # "None"},
        j \in 1..Len(score_template.stage)}

AppliedRacePairs ==
    IF call.op = "score_race" /\ Len(stages) > 0
    THEN {<<stages[Len(stages)], score_template.race[j].kwargs>> :
            j \in 1..Len(score_template.race)}
    ELSE {}

AppliedPairs == AppliedStagePairs \cup AppliedRacePairs

AllNonStrict ==
    /\ \A j \in 1..Len(score_template.stage) : ~score_template.stage[j].kwargs.strict
    /\ \A j \in 1..Len(score_template.race) : ~score_template.race[j].kwargs.strict

\* the node the key of a rule leads to in a stage
Resolved(stage, kw) == extract_results(stage.results, kw.key, FALSE)

Unresolved(stage, kw) == Resolved(stage, kw).kind # "ok"

\* the subtables of a stage that the loop of a rule does not pass over
ReachedItems(stage, kw) ==
    LET x == Resolved(stage, kw)
        t == as_subtables(x.node, FALSE)
    IN  IF x.kind # "ok" \/ t.kind # "ok" THEN <<>>
        ELSE SelectSeq(t.items,
                       LAMBDA it : \A j \in 1..Len(kw.key_filter) :
                                        kw.key_filter[j] # it.name)

EmptyEligible(table) ==
    table.kind = "DataFrame" /\ Len(Finished(table)) = 0

MissingColumn(table, kw) ==
    table.kind = "DataFrame" /\ ~({"Rider", "Team", kw.rank_by} \subseteq table.columns
                                    /\ (kw.points.isstr => kw.points.column \in table.columns))

\* a subtable that fails for a rule in one of the ways `strict` gates
Fails(table, kw) == EmptyEligible(table) \/ MissingColumn(table, kw)

\* a row that finished whose rank is no integer
RankCastFails(table, kw) ==
    /\ table.kind = "DataFrame"
    /\ kw.rank_by \in table.columns
    /\ \E i \in 1..Len(Finished(table)) : ~CanCastInt(Finished(table)[i][kw.rank_by])

PointsCastFails(table, kw) ==
    /\ table.kind = "DataFrame"
    /\ kw.points.isstr
    /\ kw.points.column \in table.columns
    /\ \E i \in 1..Len(Finished(table)) :
          ~CanCastInt(Finished(table)[i][kw.points.column])

\* a subtable that ends the call of a rule whatever `strict` is
Fatal(table, kw) ==
    \/ table.kind # "DataFrame"
    \/ ~Fails(table, kw) /\ (RankCastFails(table, kw) \/ PointsCastFails(table, kw))

\* a node without the subtables that fail for the rule
PrunedNode(node, kw) ==
    CASE node.kind = "DataFrame" -> IF Fails(node, kw) THEN Dict(<<>>) ELSE node
      [] node.kind = "dict" ->
            Dict(SelectSeq(node.items, LAMBDA it : ~Fails(it.node, kw)))
      [] OTHER -> node

\* the tree with the node at the end of `key` replaced
RECURSIVE Replace(_, _, _)
Replace(results, key, node) ==
    IF key = <<>> THEN node
    ELSE IF results.kind # "dict" THEN results
    ELSE Dict([i \in 1..Len(results.items) |->
                 IF results.items[i].name = key[1]
                 THEN Item(key[1], Replace(results.items[i].node, Tail(key), node))
                 ELSE results.items[i]])

\* the stage as it is without the subtables that fail for the rule
Pruned(stage, kw) ==
    IF Unresolved(stage, kw) THEN stage
    ELSE [stage EXCEPT !.results =
            Replace(stage.results, kw.key, PrunedNode(Resolved(stage, kw).node, kw))]

\* the template without the rules that give None wherever the call applies them
LiveTemplate ==
    [stage |-> SelectSeq(score_template.stage,
                  LAMBDA r : \E p \in AppliedStagePairs :
                      p[2] = r.kwargs /\ scoring_function(p[1], p[2]).kind # "None"),
     race |-> SelectSeq(score_template.race,
                  LAMBDA r : \E p \in AppliedRacePairs :
                      p[2] = r.kwargs /\ scoring_function(p[1], p[2]).kind # "None")]

\* C9: with a template of non-strict rules, an unresolved path, an empty
\* eligible set or a missing required column never raises out of score_stage
\* or score_race and changes nothing else: every rule scores a stage as it
\* scores the stage without the failing subtables, the ledger is the ledger
\* of the template without the rules that give nothing, and the call raises
\* only when a subtable it reaches is fatal whatever `strict` is.
C9_FailuresAreLocal ==
    (CalledLedger /\ AllNonStrict) =>
        /\ \A p \in AppliedPairs :
              scoring_function(p[1], p[2]) = scoring_function(Pruned(p[1], p[2]), p[2])
        /\ podium = IF call.op = "score_stage"
                    THEN score_stage(stages[call.stage], LiveTemplate)
                    ELSE score_race(stages, LiveTemplate, call.score_stages)
        /\ (\A p \in AppliedPairs : \A i \in 1..Len(ReachedItems(p[1], p[2])) :
                ~Fatal(ReachedItems(p[1], p[2])[i].node, p[2]))
              => podium.kind # "Error"

\* a race scored with its stages by non-strict rules: one rule finds no
\* path, one subtable lacks a column of its rule, one subtable has no
\* finisher while its sibling scores, and the ledger has points
C9_Witness ==
    /\ call.op = "score_race"
    /\ call.score_stages
    /\ AllNonStrict
    /\ podium.kind = "DataFrame"
    /\ \E i \in 1..Len(podium.rows) : podium.rows[i].v["Total"] > 0
    /\ \E p \in AppliedPairs : Unresolved(p[1], p[2])
    /\ \E p \in AppliedPairs : \E i \in 1..Len(ReachedItems(p[1], p[2])) :
          MissingColumn(ReachedItems(p[1], p[2])[i].node, p[2])
    /\ \E p \in AppliedPairs : \E i, j \in 1..Len(ReachedItems(p[1], p[2])) :
          /\ EmptyEligible(ReachedItems(p[1], p[2])[i].node)
          /\ ~Fails(ReachedItems(p[1], p[2])[j].node, p[2])
          /\ scoring_function(p[1], p[2]).kind = "DataFrame"

\* C10 as stated: a row that finished and whose rank is no integer, in a
\* subtable a rule of the call reaches, makes the call raise.
C10_RankCastAlwaysFatal ==
    (CalledLedger /\ \E p \in AppliedPairs : \E i \in 1..Len(ReachedItems(p[1], p[2])) :
                        RankCastFails(ReachedItems(p[1], p[2])[i].node, p[2]))
        => podium.kind = "Error"

\* the subtables a rule reaches that have every column the rule requires
\* and a finished row whose rank is no integer
RankCastPairs ==
    {p \in AppliedPairs : \E i \in 1..Len(ReachedItems(p[1], p[2])) :
        /\ RankCastFails(ReachedItems(p[1], p[2])[i].node, p[2])
        /\ ~MissingColumn(ReachedItems(p[1], p[2])[i].node, p[2])}

\* C10, amended: for any rule, strict or not, a finished row whose rank is
\* no integer, in a subtable the rule reaches that has every required
\* column, makes scoring_function raise, and score_stage and score_race
\* raise with it.
C10_RankCastFatalWithColumns ==
    CalledLedger =>
        \A p \in RankCastPairs :
            /\ scoring_function(p[1], p[2]).kind = "Error"
            /\ podium.kind = "Error"

\* a race scored by non-strict rules only that a rank "x" ends
C10_Witness ==
    /\ call.op = "score_race"
    /\ AllNonStrict
    /\ RankCastPairs # {}
    /\ podium = Raise("ValueError")

(***************************************************************************)
(* Properties of select_best_team (SpecTeam).                              *)
(***************************************************************************)
Returned == optimized_result.called /\ ~optimized_result.none

\* the teams: the sets of exactly nriders candidates within the budget
Selected(x) == {i \in 1..Len(riders) : x[i] = 1}

PriceOf(S) == SumFn([i \in 1..Len(riders) |-> riders[i].Price], S)

PointsOf(S) == SumFn([i \in 1..Len(riders) |-> riders[i].Points], S)

Teams ==
    {S \in SUBSET (1..Len(riders)) : Cardinality(S) = nriders /\ PriceOf(S) <= budget}

\* C4: a returned selection has exactly nriders riders and a total price of
\* at most the budget.
C4_SelectionIsValid ==
    Returned =>
        /\ Len(optimized_result.x) = Len(riders)
        /\ \A i \in 1..Len(riders) : optimized_result.x[i] \in {0, 1}
        /\ Cardinality(Selected(optimized_result.x)) = nriders
        /\ PriceOf(Selected(optimized_result.x)) <= budget

\* a selection of two riders out of three that the budget constrains
C4_Witness ==
    /\ Returned
    /\ Len(riders) = 3
    /\ nriders = 2
    /\ Cardinality(Selected(optimized_result.x)) = 2
    /\ PriceOf(1..Len(riders)) > budget
    /\ \E S \in SUBSET (1..Len(riders)) : Cardinality(S) = 2 /\ PriceOf(S) > budget

\* C5: no team has more points than the returned selection; when the budget
\* covers every rider and all points differ, the selection is the nriders
\* riders with the most points.
C5_SelectionIsOptimal ==
    Returned =>
        /\ \A S \in Teams : PointsOf(S) <= PointsOf(Selected(optimized_result.x))
        /\ (/\ PriceOf(1..Len(riders)) <= budget
            /\ \A i, j \in 1..Len(riders) : i # j => riders[i].Points # riders[j].Points)
           => \A i \in Selected(optimized_result.x) :
                 \A j \in (1..Len(riders)) \ Selected(optimized_result.x) :
                    riders[i].Points > riders[j].Points

\* a selection that has to leave out the rider with the most points to stay
\* within the budget
C5_Witness ==
    /\ Returned
    /\ nriders >= 1
    /\ \E S \in Teams : PointsOf(S) < PointsOf(Selected(optimized_result.x))
    /\ \E S \in SUBSET (1..Len(riders)) :
          /\ Cardinality(S) = nriders
          /\ PriceOf(S) > budget
          /\ PointsOf(S) > PointsOf(Selected(optimized_result.x))

\* C6: the objective value returned with the selection is the sum of the
\* points of the selected riders.
C6_ObjectiveIsPoints ==
    Returned => optimized_result.fun = PointsOf(Selected(optimized_result.x))

\* C7: when no team exists (no nriders candidates within the budget, or fewer
\* candidates than nriders), the call returns no selection: x is None.
C7_InfeasibleIsReported ==
    (optimized_result.called /\ Teams = {}) => optimized_result.none

\* the worked example asked for five riders out of four
C7_Witness ==
    /\ optimized_result.called
    /\ optimized_result.none
    /\ riders = ExampleRiders
    /\ nriders = 5
    /\ Teams = {}

(***************************************************************************)
(* Properties of the merge in score_race (Spec).                           *)
(***************************************************************************)
Perms(n) == {f \in [1..n -> 1..n] : \A i, j \in 1..n : f[i] = f[j] => i = j}

RowSet(p) == {p.rows[i] : i \in 1..Len(p.rows)}

\* the ledgers of the stages of the race, and the podia of the race rules
StageLedgers == score_all_stages(stages, score_template, <<>>)

RacePodia == race_podia(stages, score_template, <<>>)

\* the stage ledgers in the order f, the first k of them merged on their own
\* before the merge with the rest and with the podia of the race rules
MergedAs(f, k) ==
    LET ledgers == [i \in 1..Len(StageLedgers.podia) |-> StageLedgers.podia[f[i]]]
        head == IF k = 0 THEN <<>> ELSE <<race_ledger(SubSeq(ledgers, 1, k))>>
    IN  race_ledger(head \o SubSeq(ledgers, k + 1, Len(ledgers)) \o RacePodia.podia)

\* C11: the merge of the stage ledgers in score_race is independent of their
\* order and of their grouping: every order, with any leading group merged
\* first, gives every (Rider, Team) the columns and the Total of the ledger
\* score_race returns.
C11_MergeOrderIndependent ==
    (call.op = "score_race" /\ call.score_stages /\ podium.kind = "DataFrame") =>
        \A f \in Perms(Len(StageLedgers.podia)) : \A k \in 0..Len(StageLedgers.podia) :
            /\ MergedAs(f, k).cols = podium.cols
            /\ RowSet(MergedAs(f, k)) = RowSet(podium)

\* two stage ledgers that differ and share a competitor
C11_Witness ==
    /\ call.op = "score_race"
    /\ call.score_stages
    /\ podium.kind = "DataFrame"
    /\ Len(StageLedgers.podia) = 2
    /\ StageLedgers.podia[1] # StageLedgers.podia[2]
    /\ \E i \in 1..Len(StageLedgers.podia[1].rows) :
       \E j \in 1..Len(StageLedgers.podia[2].rows) :
          /\ KeyOf(StageLedgers.podia[1].rows[i]) = KeyOf(StageLedgers.podia[2].rows[j])
          /\ StageLedgers.podia[1].rows[i].v["Total"] # StageLedgers.podia[2].rows[j].v["Total"]

(***************************************************************************)
(* Properties of the race rules in score_race (Spec).                      *)
(***************************************************************************)
\* what each race rule gives for the last stage, one entry per rule
RaceRulePodia ==
    [j \in 1..Len(score_template.race) |->
        scoring_function(stages[Len(stages)], score_template.race[j].kwargs)]

\* the ledgers merged before the race rules come in
LedgersBefore ==
    IF call.score_stages THEN StageLedgers
    ELSE [kind |-> "ok", error |-> "", podia |-> <<>>]

\* C12: score_race evaluates every race rule once, against the last stage
\* only: the ledger is the merge of the stage ledgers with one podium per
\* race rule taken from the last stage, without the stages it is the ledger
\* of the race that has the last stage alone, and a race without stages
\* gives nothing.
C12_RaceRulesOnLastStage ==
    call.op = "score_race" =>
        IF Len(stages) = 0 THEN podium = None
        ELSE /\ IF \/ LedgersBefore.kind = "raise"
                   \/ \E j \in 1..Len(RaceRulePodia) : RaceRulePodia[j].kind = "Error"
                THEN podium.kind = "Error"
                ELSE LET all == LedgersBefore.podia
                                 \o SelectSeq(RaceRulePodia, LAMBDA p : p.kind # "None")
                     IN  podium = IF all = <<>> THEN None ELSE race_ledger(all)
             /\ ~call.score_stages =>
                    podium = score_race(<<stages[Len(stages)]>>, score_template, FALSE)

\* a race of two stages scored by its race rules alone, where a race rule
\* gives the first stage something else than it gives the last
C12_Witness ==
    /\ call.op = "score_race"
    /\ ~call.score_stages
    /\ Len(stages) = 2
    /\ podium.kind = "DataFrame"
    /\ \E j \in 1..Len(score_template.race) :
          /\ RaceRulePodia[j].kind = "DataFrame"
          /\ scoring_function(stages[1], score_template.race[j].kwargs).kind = "DataFrame"
          /\ scoring_function(stages[1], score_template.race[j].kwargs) # RaceRulePodia[j]

(***************************************************************************)
(* Properties of pass-through rules (SpecRule).                            *)
(***************************************************************************)
\* the subtables of the call that are scored: reached and not failing
ScoredTables ==
    LET items == ReachedItems(stages[call.stage], call.kwargs)
    IN  [i \in 1..Len(SelectSeq(items, LAMBDA it : ~Fails(it.node, call.kwargs))) |->
            SelectSeq(items, LAMBDA it : ~Fails(it.node, call.kwargs))[i].node]

\* the competitors with a finished row in a scored subtable
ScoredKeys ==
    UNION {{KeyOf(Finished(ScoredTables[i])[j]) : j \in 1..Len(Finished(ScoredTables[i]))} :
            i \in 1..Len(ScoredTables)}

\* the integers of the points column in the finished rows of a competitor
ColumnPoints(key) ==
    SumSeq([i \in 1..Len(ScoredTables) |->
        SumSeq([j \in 1..Len(Finished(ScoredTables[i])) |->
            IF KeyOf(Finished(ScoredTables[i])[j]) = key
            THEN IntOfStr[Finished(ScoredTables[i])[j][call.kwargs.points.column]]
            ELSE 0])])

\* C13: a pass-through rule gives every row that remains after the
\* non-finisher filter exactly the integer of its points column, and leaves
\* no such row out: the podium has one row per competitor with a finished
\* row, holding the integers of the competitor's rows (one value when the
\* competitor is in one subtable).
C13_PassThroughExact ==
    (CalledRule /\ call.kwargs.points.isstr /\ podium.kind = "DataFrame") =>
        /\ {KeyOf(podium.rows[i]) : i \in 1..Len(podium.rows)} = ScoredKeys
        /\ Len(podium.rows) = Cardinality(ScoredKeys)
        /\ \A i \in 1..Len(podium.rows) :
              podium.rows[i].v[name_of(call.kwargs)] = ColumnPoints(KeyOf(podium.rows[i]))

\* one table of three finishers with three different values
C13_Witness ==
    /\ CalledRule
    /\ call.kwargs.points.isstr
    /\ podium.kind = "DataFrame"
    /\ CallNode.node.kind = "DataFrame"
    /\ Len(Finished(CallNode.node)) = 3
    /\ {podium.rows[i].v["UCI"] : i \in 1..Len(podium.rows)} = {1, 2, 3}

(***************************************************************************)
(* Properties of score_stage (Spec).                                       *)
(***************************************************************************)
\* what each stage rule gives for the stage of the call, one entry per rule
StageRulePodia ==
    [j \in 1..Len(score_template.stage) |->
        scoring_function(stages[call.stage], score_template.stage[j].kwargs)]

\* None exactly when every stage rule gives None; otherwise a ledger with
\* one row per competitor of a rule's podium, by descending Total
NoneIffNoRuleApplies ==
    /\ podium = None <=> \A j \in 1..Len(StageRulePodia) : StageRulePodia[j].kind = "None"
    /\ podium # None =>
          /\ podium.kind = "DataFrame"
          /\ {KeyOf(podium.rows[i]) : i \in 1..Len(podium.rows)}
                = UNION {{KeyOf(StageRulePodia[j].rows[i]) :
                            i \in 1..Len(StageRulePodia[j].rows)} :
                         j \in 1..Len(StageRulePodia)}
          /\ \A i, k \in 1..Len(podium.rows) :
                /\ i # k => KeyOf(podium.rows[i]) # KeyOf(podium.rows[k])
                /\ i < k => podium.rows[i].v["Total"] >= podium.rows[k].v["Total"]

\* C14 as stated: for every stage whose scoring returns, score_stage returns
\* None if and only if every stage rule is not applicable to the stage, and
\* otherwise the ledger of the competitors of the rules' podia.
C14_NoneIffNoRuleApplies ==
    (call.op = "score_stage" /\ podium.kind # "Error") => NoneIffNoRuleApplies

\* C14, amended: for a stage that has a name and whose rules raise nothing,
\* score_stage returns None if and only if every stage rule gives None, and
\* otherwise the ledger of the competitors of the rules' podia by descending
\* Total; a stage without a name is not scored and gives None.
C14_NamedStageNoneIffNoRuleApplies ==
    call.op = "score_stage" =>
        IF stages[call.stage].stage_name = "None" THEN podium = None
        ELSE (\A j \in 1..Len(StageRulePodia) : StageRulePodia[j].kind # "Error")
                => NoneIffNoRuleApplies

\* a named stage with a rule that gives nothing and a rule that gives
\* points, and a ledger of several Totals
C14_Witness ==
    /\ call.op = "score_stage"
    /\ stages[call.stage].stage_name # "None"
    /\ podium.kind = "DataFrame"
    /\ \E j \in 1..Len(StageRulePodia) : StageRulePodia[j].kind = "None"
    /\ \E i, k \in 1..Len(podium.rows) :
          podium.rows[i].v["Total"] > podium.rows[k].v["Total"]

(***************************************************************************)
(* download.py: download_webpage                                           *)
(*                                                                         *)
(* The file system is the set of folders that exist and the set of files   *)
(* [path, content]; a path is [parent, name].  A request sent is logged in *)
(* `requests` with the path it was sent for and whether the page was       *)
(* written.  The web answers a request with a page or not at all.          *)
(***************************************************************************)
Path(parent, name) == [parent |-> parent, name |-> name]

exists(fs, filepath) == \E f \in fs.files : f.path = filepath

\* a folder with the folders above it
parents(folder) == IF folder = "data/2024" THEN {"data", "data/2024"} ELSE {folder}

\* filepath.parent.mkdir(parents=True, exist_ok=True)
mkdir(fs, folder) == [fs EXCEPT !.folders = @ \cup parents(folder)]

\* open(filepath, "wb") and file.write(page.content)
write(fs, filepath, content) ==
    [fs EXCEPT !.files = {f \in @ : f.path # filepath}
                            \cup {[path |-> filepath, content |-> content]}]

\* what the web gives for a url: nothing for a url that is down, else a page
Web(down, page) == [down |-> down, page |-> page]

\* how a call of download_webpage leaves the file system and the log
Done(fs, reqs, outcome) == [filesystem |-> fs, requests |-> reqs, outcome |-> outcome]

Request(url, filepath, strict, overwrite, written) ==
    [url |-> url, filepath |-> filepath, strict |-> strict, overwrite |-> overwrite,
     written |-> written]

\* page = requests.get(url, timeout=5) and the write of its content
fetch(fs, reqs, url, filepath, strict, overwrite, web) ==
    IF url = PyNone
    THEN Done(fs, reqs, Raises("MissingSchema"))
    ELSE IF url \in web.down
    THEN Done(fs, Append(reqs, Request(url, filepath, strict, overwrite, FALSE)),
              Raises("ConnectionError"))
    ELSE Done(write(fs, filepath, web.page),
              Append(reqs, Request(url, filepath, strict, overwrite, TRUE)),
              Returns(PyNone))

\* a download that does not look whether the file is there
download_anyway(fs, reqs, url, filepath, strict, overwrite, web) ==
    IF filepath.parent \notin fs.folders /\ strict
    THEN Done(fs, reqs, Raises("FileNotFoundError"))
    ELSE fetch(mkdir(fs, filepath.parent), reqs, url, filepath, strict, overwrite, web)

download_webpage(fs, reqs, url, filepath, strict, overwrite, web) ==
    IF filepath.parent \notin fs.folders /\ strict
    THEN Done(fs, reqs, Raises("FileNotFoundError"))
    ELSE With(IF filepath.parent \notin fs.folders THEN mkdir(fs, filepath.parent) ELSE fs,
              LAMBDA made :
                IF exists(made, filepath)
                THEN IF strict THEN Done(made, reqs, Raises("FileExistsError"))
                     ELSE IF ~overwrite THEN Done(made, reqs, Returns(PyNone))
                     ELSE fetch(made, reqs, url, filepath, strict, overwrite, web)
                ELSE fetch(made, reqs, url, filepath, strict, overwrite, web))

(***************************************************************************)
(* race_calendar.py: ensure_list_or_default                                *)
(***************************************************************************)
\* what a sequence pattern of a match statement accepts: a list or a tuple,
\* never a str
is_sequence(value) == value.kind \in {"list", "tuple"}

\* match value: case None | [] / case [_] / case _
ensure_list_or_default(value, default) ==
    IF default.kind # "list" THEN Raises("TypeError")
    ELSE IF value = PyNone \/ (is_sequence(value) /\ Len(value.items) = 0)
    THEN Returns(default)
    ELSE IF is_sequence(value) /\ Len(value.items) = 1
    THEN Returns(value)
    ELSE Returns(PyList(<<value>>))

Elements == {PyStr("UWT"), PyInt("2024")}

Values ==
    {PyNone} \cup Elements
        \cup {PyList(items) : items \in SeqsUpTo(Elements, MaxItems)}
        \cup {PyTuple(items) : items \in SeqsUpTo(Elements, MaxItems)}

Defaults ==
    {PyNone, PyStr("UWT"), PyTuple(<<PyInt("2024")>>)}
        \cup {PyList(items) : items \in SeqsUpTo(Elements, 2)}

(***************************************************************************)
(* race_calendar.py: get_race_url, get_calendar_filename, get_races        *)
(***************************************************************************)
GENERAL_CLASS == <<"UWT", "WWT", "Pro", "1", "2", "NCup", "2U">>

SPECIAL_CLASS == <<"WC", "NC", "Olympics">>

DURATION_ABBREVIATIONS == [key \in {"one-day", "multi-day"} |->
                              IF key = "one-day" THEN "1" ELSE "2"]

CATEGORY_ABBREVIATIONS == [key \in {"Elite", "U23", "Juniors"} |->
                              CASE key = "Elite" -> "E" [] key = "U23" -> "U"
                                [] key = "Juniors" -> "J"]

GENUS_ABBREVATIONS == [key \in {"Men", "Women"} |-> IF key = "Men" THEN "M" ELSE "W"]

CLASS_MAP ==
    [key \in {<<"M", "E">>, <<"W", "E">>, <<"M", "U">>, <<"M", "J">>, <<"W", "J">>,
              <<"W", "U">>} |->
        CASE key = <<"M", "E">> -> 1 [] key = <<"W", "E">> -> 2 [] key = <<"M", "U">> -> 3
          [] key = <<"M", "J">> -> 4 [] key = <<"W", "J">> -> 6 [] key = <<"W", "U">> -> 7]

\* the keys of the three dicts in insertion order, as the default lists
StrList(names) == PyList([i \in 1..Len(names) |-> PyStr(names[i])])

\* the year date.today() gives
Today == PyInt("2026")

\* a lookup mapping[key]: TypeError for an unhashable key, KeyError for a
\* key the dict lacks
lookup_error(key, mapping) ==
    IF key.kind = "list" THEN "TypeError"
    ELSE IF key.kind # "str" \/ key.v \notin DOMAIN mapping THEN "KeyError"
    ELSE ""

\* the url of a calendar page: its season, category and class parameters
Url(year, cat_number, duration, classification) ==
    [season |-> year, category |-> cat_number,
     class |-> [duration |-> duration, classification |-> classification]]

\* the part of get_race_url after cat_number is known
full_classification(year, classification, duration, cat_number) ==
    IF \E i \in 1..Len(SPECIAL_CLASS) : PyStr(SPECIAL_CLASS[i]) = classification
    THEN IF duration = PyStr("multi-day") THEN Returns(PyNone)
         ELSE Returns(Url(year, cat_number, "", classification.v))
    ELSE IF lookup_error(duration, DURATION_ABBREVIATIONS) # ""
    THEN Raises(lookup_error(duration, DURATION_ABBREVIATIONS))
    ELSE IF classification.kind # "str" THEN Raises("TypeError")
    ELSE Returns(Url(year, cat_number, DURATION_ABBREVIATIONS[duration.v], classification.v))

get_race_url(year, classification, category, duration, genus) ==
    IF lookup_error(genus, GENUS_ABBREVATIONS) # ""
    THEN Raises(lookup_error(genus, GENUS_ABBREVATIONS))
    ELSE IF lookup_error(category, CATEGORY_ABBREVIATIONS) # ""
    THEN Raises(lookup_error(category, CATEGORY_ABBREVIATIONS))
    ELSE full_classification(year, classification, duration,
            CLASS_MAP[<<GENUS_ABBREVATIONS[genus.v], CATEGORY_ABBREVIATIONS[category.v]>>])

\* a relative path: its parent is the working directory
get_calendar_filename(year, classification, category, duration, genus) ==
    Path(".", <<"calendar", year, classification, category, duration, genus>>)

\* itertools.product of five lists, the last one running fastest
product(a, b, c, d, e) ==
    [k \in 1..(Len(a) * Len(b) * Len(c) * Len(d) * Len(e)) |->
        <<a[((k - 1) \div (Len(b) * Len(c) * Len(d) * Len(e))) + 1],
          b[(((k - 1) \div (Len(c) * Len(d) * Len(e))) % Len(b)) + 1],
          c[(((k - 1) \div (Len(d) * Len(e))) % Len(c)) + 1],
          d[(((k - 1) \div Len(e)) % Len(d)) + 1],
          e[((k - 1) % Len(e)) + 1]>>]

\* one pass of the loop body: the url, the file name and the download with
\* the defaults strict=True and overwrite=False
download_calendar(combo, fs, reqs, web) ==
    With(get_race_url(combo[1], combo[2], combo[3], combo[4], combo[5]), LAMBDA url :
        IF url.raised # "" THEN Done(fs, reqs, url)
        ELSE download_webpage(fs, reqs, url.value,
                get_calendar_filename(combo[1], combo[2], combo[3], combo[4], combo[5]),
                TRUE, FALSE, web))

\* the loop over the combinations lo..hi, in order, ended by the first
\* exception (the range is halved so that the evaluation stays shallow);
\* the function ends without a return statement
RECURSIVE download_calendars(_, _, _, _, _)
download_calendars(combos, lo, hi, before, web) ==
    IF lo > hi \/ before.outcome.raised # "" THEN before
    ELSE IF lo = hi
    THEN download_calendar(combos[lo], before.filesystem, before.requests, web)
    ELSE download_calendars(combos, ((lo + hi) \div 2) + 1, hi,
            download_calendars(combos, lo, (lo + hi) \div 2, before, web), web)

\* the loop over the product of the five lists
for_product(combos, fs, reqs, web) ==
    download_calendars(combos, 1, Len(combos), Done(fs, reqs, Returns(PyNone)), web)

get_races(year, classification, category, duration, genus, fs, reqs, web) ==
    for_product(
        product(ensure_list_or_default(year, PyList(<<Today>>)).value.items,
                ensure_list_or_default(classification,
                    StrList(GENERAL_CLASS \o SPECIAL_CLASS)).value.items,
                ensure_list_or_default(category,
                    StrList(<<"Elite", "U23", "Juniors">>)).value.items,
                ensure_list_or_default(duration,
                    StrList(<<"one-day", "multi-day">>)).value.items,
                ensure_list_or_default(genus, StrList(<<"Men", "Women">>)).value.items),
        fs, reqs, web)

(***************************************************************************)
(* SpecEnsure: ensure_list_or_default applied to a value and a default.    *)
(***************************************************************************)
InitEnsure ==
    /\ stages = <<>>
    /\ score_template = NoTemplate
    /\ call = NoCall
    /\ podium = None
    /\ NoTeam
    /\ NoDownload

EnsureListOrDefault ==
    /\ call.op = ""
    /\ \E value \in Values, default \in Defaults :
          /\ call' = [op |-> "ensure_list_or_default", value |-> value,
                      default |-> default]
          /\ returned' = ensure_list_or_default(value, default)
    /\ UNCHANGED <<stages, score_template, podium, riders, nriders, budget,
                   optimized_result, filesystem, requests>>

NextEnsure == EnsureListOrDefault

SpecEnsure == InitEnsure /\ [][NextEnsure]_vars

(***************************************************************************)
(* Properties of ensure_list_or_default (SpecEnsure).                      *)
(***************************************************************************)
\* C15: ensure_list_or_default raises TypeError when default is no list;
\* otherwise it returns value itself when value is a list of one or more
\* items, default when value is None, and [value] when value is anything
\* else (the empty list is left open).
C15_EnsureListOrDefault ==
    call.op = "ensure_list_or_default" =>
        IF call.default.kind # "list" THEN returned = Raises("TypeError")
        ELSE IF call.value = PyNone THEN returned = Returns(call.default)
        ELSE IF call.value.kind = "list"
        THEN Len(call.value.items) >= 1 => returned = Returns(call.value)
        ELSE returned = Returns(PyList(<<call.value>>))

(***************************************************************************)
(* SpecCalendar: get_races applied to filter values, in a working          *)
(* directory that may hold a calendar page from an earlier run.            *)
(***************************************************************************)
YearArgs == {PyInt("2024"), PyNone}

ClassificationArgs ==
    {PyNone, PyStr("UWT"), PyStr("WC"), PyList(<<PyStr("UWT")>>),
     PyList(<<PyStr("UWT"), PyStr("WC")>>)}

CategoryArgs == {PyNone, PyStr("Elite")}

DurationArgs == {PyNone, PyStr("one-day"), PyStr("multi-day")}

GenusArgs == {PyNone, PyStr("Men"), PyList(<<PyStr("Women")>>)}

CalendarUrls ==
    {Url(y, n, d, c) : y \in {PyInt("2024"), Today}, n \in {1, 2, 3, 4, 6, 7},
                       d \in {"", "1", "2"},
                       c \in {GENERAL_CLASS[i] : i \in 1..Len(GENERAL_CLASS)}
                              \cup {SPECIAL_CLASS[i] : i \in 1..Len(SPECIAL_CLASS)}}

\* the web is up, down, or down for one page
CalendarWebs ==
    {Web({}, "page"), Web(CalendarUrls, "page"),
     Web({Url(PyInt("2024"), 2, "1", "UWT")}, "page")}

WorkingDirectories ==
    {[folders |-> {"."}, files |-> {}],
     [folders |-> {"."},
      files |-> {[path |-> get_calendar_filename(PyInt("2024"), PyStr("UWT"),
                              PyStr("Elite"), PyStr("one-day"), PyStr("Men")),
                  content |-> "page"]}]}

InitCalendar ==
    /\ stages = <<>>
    /\ score_template = NoTemplate
    /\ call = NoCall
    /\ podium = None
    /\ NoTeam
    /\ filesystem \in WorkingDirectories
    /\ requests = <<>>
    /\ returned = NoOutcome

GetRaces ==
    /\ call.op = ""
    /\ \E year \in YearArgs, classification \in ClassificationArgs,
          category \in CategoryArgs, duration \in DurationArgs, genus \in GenusArgs,
          web \in CalendarWebs :
          /\ call' = [op |-> "get_races", year |-> year,
                      classification |-> classification, category |-> category,
                      duration |-> duration, genus |-> genus, web |-> web]
          /\ \E done \in {get_races(year, classification, category, duration, genus,
                                     filesystem, requests, web)} :
                /\ filesystem' = done.filesystem
                /\ requests' = done.requests
                /\ returned' = done.outcome
    /\ UNCHANGED <<stages, score_template, podium, riders, nriders, budget,
                   optimized_result>>

NextCalendar == GetRaces

SpecCalendar == InitCalendar /\ [][NextCalendar]_vars

(***************************************************************************)
(* Properties of get_races (SpecCalendar).                                 *)
(***************************************************************************)
\* C16: get_races completes normally for any filter values, the defaults
\* included, and returns a table of races: it raises nothing and what it
\* returns is a DataFrame, not None.
C16_GetRacesReturnsTable ==
    call.op = "get_races" =>
        /\ returned.raised = ""
        /\ returned.value.kind = "DataFrame"

(***************************************************************************)
(* Properties of ladder rules on a Category (SpecRule).                    *)
(***************************************************************************)
\* the points a podium gives a competitor, 0 when it has no row for it
PointsIn(p, key, column) ==
    IF p.kind = "DataFrame" /\ \E i \in 1..Len(p.rows) : KeyOf(p.rows[i]) = key
    THEN p.rows[CHOOSE i \in 1..Len(p.rows) : KeyOf(p.rows[i]) = key].v[column]
    ELSE 0

\* what the rule of the call gives for the i-th subtable of the Category on
\* its own
ScoredAlone(i) ==
    scoring_function(
        [stages[call.stage] EXCEPT !.results =
            Replace(@, call.kwargs.key, Dict(<<CallNode.node.items[i]>>))],
        call.kwargs)

\* C17: a ladder rule on a Category scores every subtable against the full
\* ladder: each competitor gets the sum of what the subtables give it when
\* each is scored on its own, whatever the other subtables hold.
C17_SubtablesScoredIndependently ==
    (/\ CalledRule
     /\ ~call.kwargs.points.isstr
     /\ podium.kind = "DataFrame"
     /\ CallNode.kind = "ok"
     /\ CallNode.node.kind = "dict") =>
        \A c \in 1..Len(Competitors) :
            PointsIn(podium, Competitors[c], name_of(call.kwargs))
                = SumSeq([i \in 1..Len(CallNode.node.items) |->
                            PointsIn(ScoredAlone(i), Competitors[c], name_of(call.kwargs))])

(***************************************************************************)
(* Properties of the score template (Spec).                                *)
(***************************************************************************)
\* C18: no call of score_stage or score_race changes the score template: a
\* ladder that a call truncated for a small field has its full length in
\* every later call.
C18_TemplateUnchanged == [][score_template' = score_template]_vars

\* a stage scored by a ladder rule that ran out of finishers: the call
\* ended with a shorter ladder than the template holds
C18_Witness ==
    /\ call.op = "score_stage"
    /\ podium.kind = "DataFrame"
    /\ stages[call.stage].stage_name # "None"
    /\ \E j \in 1..Len(score_template.stage) :
          /\ ~score_template.stage[j].kwargs.points.isstr
          /\ Len(points_after(stages[call.stage], score_template.stage[j].kwargs))
                < Len(score_template.stage[j].kwargs.points.list)
          /\ scoring_function(stages[call.stage], score_template.stage[j].kwargs).kind
                = "DataFrame"

(***************************************************************************)
(* SpecDownload: a sequence of download_webpage calls on a data folder.    *)
(***************************************************************************)
DownloadUrls == {PyStr("races.php?year=2024")}

FilePaths == {Path("data", "calendar.html"), Path("data/2024", "calendar_2024.html")}

\* the web is up with one of two versions of a page, or down
DownloadWebs ==
    {Web(down, page) : down \in {{}, DownloadUrls}, page \in {"page 1", "page 2"}}

DataFolders ==
    {[folders |-> {}, files |-> {}],
     [folders |-> {"data"}, files |-> {}],
     [folders |-> {"data", "data/2024"},
      files |-> {[path |-> Path("data/2024", "calendar_2024.html"), content |-> "page 0"]}]}

InitDownload ==
    /\ stages = <<>>
    /\ score_template = NoTemplate
    /\ call = NoCall
    /\ podium = None
    /\ NoTeam
    /\ filesystem \in DataFolders
    /\ requests = <<>>
    /\ returned = NoOutcome

DownloadWebpage ==
    /\ Len(requests) < MaxRequests
    /\ \E url \in DownloadUrls, filepath \in FilePaths, strict \in BOOLEAN,
          overwrite \in BOOLEAN, web \in DownloadWebs :
          /\ call' = [op |-> "download_webpage", url |-> url, filepath |-> filepath,
                      strict |-> strict, overwrite |-> overwrite, web |-> web]
          /\ \E done \in {download_webpage(filesystem, requests, url, filepath, strict,
                                            overwrite, web)} :
                /\ filesystem' = done.filesystem
                /\ requests' = done.requests
                /\ returned' = done.outcome
    /\ UNCHANGED <<stages, score_template, podium, riders, nriders, budget,
                   optimized_result>>

NextDownload == DownloadWebpage

SpecDownload == InitDownload /\ [][NextDownload]_vars

(***************************************************************************)
(* Properties of download_webpage (SpecDownload).                          *)
(***************************************************************************)
\* the requests that wrote the file for a call with strict=False and
\* overwrite=False
LenientWrites(reqs, filepath) ==
    {i \in 1..Len(reqs) : /\ reqs[i].filepath = filepath
                          /\ ~reqs[i].strict
                          /\ ~reqs[i].overwrite
                          /\ reqs[i].written}

\* C19: in every sequence of calls, the calls with strict=False and
\* overwrite=False write a file at most once: such a call on a file that
\* exists returns without a request and leaves the file system as it is; a
\* call with strict=True whose parent folder is missing or whose file exists
\* raises FileNotFoundError or FileExistsError without a request and without
\* a change of the file system.
C19_DownloadOnce ==
    [][call'.op = "download_webpage" =>
        /\ (~call'.strict /\ ~call'.overwrite /\ exists(filesystem, call'.filepath)) =>
              /\ filesystem' = filesystem
              /\ requests' = requests
              /\ returned' = Returns(PyNone)
        /\ Cardinality(LenientWrites(requests', call'.filepath)) <= 1
        /\ (call'.strict /\ call'.filepath.parent \notin filesystem.folders) =>
              /\ returned' = Raises("FileNotFoundError")
              /\ filesystem' = filesystem
              /\ requests' = requests
        /\ (call'.strict /\ call'.filepath.parent \in filesystem.folders
              /\ exists(filesystem, call'.filepath)) =>
              /\ returned' = Raises("FileExistsError")
              /\ filesystem' = filesystem
              /\ requests' = requests]_vars

\* a call with strict=False and overwrite=False that found the file another
\* such call had written: the web has a newer page, the file keeps the old
C19_Witness ==
    /\ call.op = "download_webpage"
    /\ ~call.strict
    /\ ~call.overwrite
    /\ call.web.down = {}
    /\ returned = Returns(PyNone)
    /\ Cardinality(LenientWrites(requests, call.filepath)) = 1
    /\ \E f \in filesystem.files : f.path = call.filepath /\ f.content # call.web.page

====
